---- MODULE Spec2Model ----
(***************************************************************************)
(* Delivery queue of src/Co_mcq.py: the module-level dictionaries          *)
(* send_queues, quiz_cache and last_sent_time, the quizzes / stats tables  *)
(* of the sqlite store, the update handlers that append to a queue         *)
(* (enqueue_mcq and its callers, /start quiz_<id>, the callback            *)
(* dispatcher) and the process_queue tasks they create.                    *)
(*                                                                         *)
(* Scheduling is asyncio's: one handler runs at a time (the Application is *)
(* built without concurrent_updates), process_queue tasks are created with *)
(* asyncio.create_task and interleave with the handler and with each other *)
(* at every await that really suspends.  One action of the model is one    *)
(* run of a task from a suspension point to the next.  A database read is  *)
(* taken at the moment the awaiting task resumes.                          *)
(***************************************************************************)
EXTENDS Integers, Sequences, FiniteSets, Bags, TLC

\* ---------------------------------------------------------------- bounds
MaxUpdates == 2
MaxPremade == 4
MaxOptions == 11
MaxSegs == 2
LongQuestionLen == 301
LongOptionLen == 101

\* ------------------------------------------------------ program constants
QueueLimit == 50
max_retries == 3

\* ------------------------------------------------------------- universes
None == "None"
Users == {"u1"}
Chats == {"pm", "chan"}

\* ChatType of a chat id: "pm" is the private chat of u1, "chan" a channel
ChatType(c) == IF c = "pm" THEN "private" ELSE "channel"

\* the tuples (q, opts, idx, expl) parse_mcq returns; expl plays no part
\* in queueing and is left out
I1 == [q |-> "Q1", opts |-> <<"a", "b">>, idx |-> 0]
I2 == [q |-> "Q2", opts |-> <<"a", "b">>, idx |-> 1]
Items == {I1, I2}

\* hashlib.md5((q + ':::'.join(opts)).encode()).hexdigest(): a digest of the
\* question text and the option texts, the answer index left out
quiz_hash(it) ==
  CASE it.q = "Q1" /\ it.opts = <<"a", "b">> -> "h1"
    [] it.q = "Q2" /\ it.opts = <<"a", "b">> -> "h2"
    [] OTHER -> "h0"
Hashes == {quiz_hash(it) : it \in Items}

\* what the blocks of one message parse to, in order
Messages == {<< >>, <<I1>>, <<I2>>, <<I1, I2>>, <<I1, I1>>}

\* absent values, shaped like the present ones
NoItem == [q |-> "", opts |-> << >>, idx |-> 0]
NoElem == [item |-> NoItem, seq |-> 0]
NoId == None
NoRow == [item |-> NoItem, user |-> None]
NoRes == [done |-> FALSE, out |-> << >>]
\* a match of parse_premade_mcq at line 241, nothing shuffled yet
Match(opts, ans_idx) ==
  [opts |-> opts, ans_idx |-> ans_idx, done |-> FALSE,
   indexed |-> << >>, shuffled |-> << >>, new_index |-> 0]

VARIABLES
  send_queues,     \* chat id -> deque of queued tuples (tagged with seq)
  quiz_cache,      \* chat id -> set of hashes
  last_sent_time,  \* user -> 0 (the defaultdict's float()) or 1 (a time.time() stored)
  quizzes,         \* quiz_id -> row of table quizzes, or NoRow
  user_stats,      \* user -> sent
  channel_stats,   \* chat -> sent
  known_channels,  \* chat ids in table known_channels
  target_channel,  \* chat -> chat_data["target_channel"], or None
  default_channel, \* user -> row of default_channels, or None
  wk,              \* bag of the process_queue tasks created and not returned
  hd,              \* the update handler in progress
  nupd,            \* updates and cleanup rounds so far
  nseq,            \* chat -> number of tuples appended to its queue so far
  maxCalled,       \* chat -> highest seq a send_poll call was made for
  okCount,         \* chat -> hash -> successful send_poll calls
  failed,          \* chat -> seqs whose send_poll raised and was not called again
  ev,              \* what the last step did, and the messages it sent
  text,            \* the block handed to parse_mcq
  parsed_mcqs,     \* what parse_mcq(text) returned, once it has
  premade,         \* one match of parse_premade_mcq: its opts and ans_idx, and the shuffle
  clock,           \* time.time() in seconds, and the times each user passed the rate limit
  editing_quiz_id, \* user -> user_data["editing_quiz_id"], or None
  retry,           \* one call of a function wrapped by retry_async
  polls            \* one run of send_polls

vars == <<send_queues, quiz_cache, last_sent_time, quizzes, user_stats, channel_stats,
          known_channels, target_channel, default_channel, wk, hd, nupd,
          nseq, maxCalled, okCount, failed, ev, text, parsed_mcqs, premade,
          clock, editing_quiz_id, retry, polls>>

\* a process_queue coroutine as create_task leaves it: its arguments, and the
\* locals cur (the tuple popped), lang (bound or not) and retries
NewTask(chat, uid, priv, quiz_id) ==
  [pc |-> "ready", chat |-> chat, uid |-> uid, priv |-> priv, quiz_id |-> quiz_id,
   cur |-> NoElem, lang |-> FALSE, retries |-> [x \in Hashes |-> 0]]
NoHandler == [pc |-> "none", uid |-> None, chat |-> None, priv |-> FALSE,
              cid |-> None, cands |-> << >>, found |-> FALSE]

\* the module-level state once main() has built the Application
Constructed ==
  /\ send_queues = [c \in Chats |-> << >>]
  /\ quiz_cache = [c \in Chats |-> {}]
  /\ last_sent_time = [u \in Users |-> 0]
  /\ quizzes = [h \in Hashes |-> NoRow]
  /\ user_stats = [u \in Users |-> 0]
  /\ channel_stats = [c \in Chats |-> 0]
  /\ known_channels = {}
  /\ target_channel = [c \in Chats |-> None]
  /\ default_channel = [u \in Users |-> None]
  /\ wk = EmptyBag
  /\ hd = NoHandler
  /\ nupd = 0
  /\ nseq = [c \in Chats |-> 0]
  /\ maxCalled = [c \in Chats |-> 0]
  /\ okCount = [c \in Chats |-> [h \in Hashes |-> 0]]
  /\ failed = [c \in Chats |-> {}]
  /\ ev = [kind |-> "step", chat |-> None, el |-> NoElem, notes |-> << >>]

\* the parts of the state that only the specifications of their own sections
\* change: no time has passed, nobody is editing, nothing wrapped by
\* retry_async is being called and send_polls is not running
NoClock == [now |-> 0, accepted |-> << >>]
NoEditing == [u \in Users |-> None]
NoRetry == [pc |-> "none", attempts |-> 0, delay |-> 0, attempt |-> 0, log |-> << >>,
            slept |-> 0, result |-> 0, error |-> 0]
NoPolls == [pc |-> "none", n |-> 0, i |-> 0, log |-> << >>]
OtherIdle ==
  /\ clock = NoClock
  /\ editing_quiz_id = NoEditing
  /\ retry = NoRetry
  /\ polls = NoPolls

\* no block is being parsed
Init ==
  /\ Constructed
  /\ text = << >>
  /\ parsed_mcqs = NoRes
  /\ premade = Match(<< >>, 0)
  /\ OtherIdle


\* ------------------------------------------------------------ process_queue
\* SELECT ... FROM quizzes WHERE quiz_id=?
QuizRow(quiz_id) == IF quiz_id \in Hashes THEN quizzes[quiz_id] ELSE NoRow

\* queue elements carry the tuple and the order in which it was appended
Elem(it, n) == [item |-> it, seq |-> n]

Note(to, key) == [to |-> to, key |-> key]
Event(kind, chat, el, notes) == [kind |-> kind, chat |-> chat, el |-> el, notes |-> notes]
\* a step that sends no message and is no delivery event
Quiet == Event("step", None, NoElem, << >>)

\* lines 268-273: pop from the left until a tuple whose hash is not in the cache
SkipCached(q, cache) ==
  LET fresh == {i \in DOMAIN q : quiz_hash(q[i].item) \notin cache}
  IN IF fresh = {} THEN << >>
     ELSE SubSeq(q, CHOOSE i \in fresh : \A j \in fresh : i <= j, Len(q))

\* the bag of tasks once task t has returned, and once it has gone on as t2
Returned(t) == wk (-) SetToBag({t})
Resumed(t, t2) == (wk (-) SetToBag({t})) (+) SetToBag({t2})

\* the loop with a task that waits at an empty queue instead of returning
WorkerLoop_wait(t, rec, queues, caches) ==
  LET c == rec.chat
      rest == SkipCached(queues[c], caches[c])
  IN /\ quiz_cache' = caches
     /\ IF rest = << >>
        THEN /\ wk' = Resumed(t, [rec EXCEPT !.pc = "ready"])
             /\ send_queues' = [queues EXCEPT ![c] = << >>]
        ELSE /\ wk' = Resumed(t, [rec EXCEPT !.pc = "db", !.cur = Head(rest)])
             /\ send_queues' = [queues EXCEPT ![c] = Tail(rest)]

\* top of the while loop, run until the task suspends on the SELECT of line
\* 274 or the queue is empty and the task returns; t is the task as it was
\* suspended, rec its state now
WorkerLoop(t, rec, queues, caches) ==
  LET c == rec.chat
      rest == SkipCached(queues[c], caches[c])
  IN /\ quiz_cache' = caches
     /\ IF rest = << >>
        THEN /\ wk' = Returned(t)
             /\ send_queues' = [queues EXCEPT ![c] = << >>]
        ELSE /\ wk' = Resumed(t, [rec EXCEPT !.pc = "db", !.cur = Head(rest)])
             /\ send_queues' = [queues EXCEPT ![c] = Tail(rest)]

\* the except clause with append in the place of appendleft
WorkerExcept_tail(t, rec, kind) ==
  /\ send_queues' = [send_queues EXCEPT ![rec.chat] = Append(@, rec.cur)]
  /\ wk' = Returned(t)
  /\ UNCHANGED quiz_cache
  /\ ev' = Event(kind, rec.chat, rec.cur, << >>)

\* lines 350-358: the except clause of the loop body
WorkerExcept(t, rec, kind) ==
  LET h == quiz_hash(rec.cur.item)
      r == rec.retries[h] + 1
      rec2 == [rec EXCEPT !.retries[h] = r]
  IN IF r >= max_retries
     THEN IF rec.lang
          THEN /\ WorkerLoop(t, rec2, send_queues, quiz_cache)
               /\ ev' = Event("retries_exhausted", rec.chat, rec.cur,
                              <<Note(rec.chat, "post_failed")>>)
          ELSE \* lang is not bound yet: the handler itself raises
               /\ wk' = Returned(t)
               /\ UNCHANGED <<send_queues, quiz_cache>>
               /\ ev' = Event("task_died", rec.chat, rec.cur, << >>)
     ELSE \* appendleft, then break: the loop is left and the task returns
          /\ send_queues' = [send_queues EXCEPT ![rec.chat] = <<rec.cur>> \o @]
          /\ wk' = Returned(t)
          /\ UNCHANGED quiz_cache
          /\ ev' = Event(kind, rec.chat, rec.cur, << >>)

\* the send_poll call for el is issued (line 291)
Called(c, el) ==
  /\ maxCalled' = [maxCalled EXCEPT ![c] = IF el.seq > @ THEN el.seq ELSE @]
  /\ failed' = [failed EXCEPT ![c] = @ \ {el.seq}]
  /\ ev' = Event("call", c, el, << >>)

\* the task created by asyncio.create_task runs for the first time
WorkerStart(t) ==
  /\ t.pc = "ready"
  /\ WorkerLoop(t, t, send_queues, quiz_cache)
  /\ ev' = Quiet
  /\ UNCHANGED <<clock, editing_quiz_id, retry, polls, text, parsed_mcqs, premade, last_sent_time, quizzes, user_stats, channel_stats, known_channels,
                 target_channel, default_channel, hd, nupd, nseq, maxCalled, okCount, failed>>

\* lines 274-291: the SELECT returns; a row makes the tuple a duplicate,
\* otherwise the hash enters the cache and the rights check (or, in a
\* direct context, the send_poll call) is issued
WorkerDbResult(t) ==
  LET c == t.chat
      h == quiz_hash(t.cur.item)
      cache2 == [quiz_cache EXCEPT ![c] = @ \cup {h}]
  IN /\ t.pc = "db"
     /\ IF QuizRow(h) # NoRow
        THEN /\ WorkerLoop(t, t, send_queues, cache2)
             /\ ev' = Quiet
             /\ UNCHANGED <<maxCalled, failed>>
        ELSE /\ quiz_cache' = cache2
             /\ UNCHANGED send_queues
             /\ IF t.priv
                THEN /\ wk' = Resumed(t, [t EXCEPT !.pc = "send"])
                     /\ Called(c, t.cur)
                ELSE /\ wk' = Resumed(t, [t EXCEPT !.pc = "perm"])
                     /\ UNCHANGED <<maxCalled, failed>>
                     /\ ev' = Quiet
     /\ UNCHANGED <<clock, editing_quiz_id, retry, polls, text, parsed_mcqs, premade, last_sent_time, quizzes, user_stats, channel_stats, known_channels,
                    target_channel, default_channel, hd, nupd, nseq, okCount>>

\* lines 281-290: get_chat_member returns or raises, and the not_admin
\* message is sent; the awaits of this stretch touch no shared state before
\* the last of them, so they are one step.  res:
\*   granted        posting rights, go on to send_poll (a channel only: in
\*                  other chats the bot is no administrator, or
\*                  can_post_messages is not set)
\*   denied         no rights, message of line 285 sent
\*   denied_retry   no rights, line 285 raises, message of line 289 sent
\*   denied_raise   no rights, lines 285 and 289 both raise
\*   error          get_chat_member raises, message of line 289 sent
\*   error_raise    get_chat_member raises, line 289 raises
PermResults == {"granted", "denied", "denied_retry", "denied_raise", "error", "error_raise"}

WorkerPerm(t, res) ==
  LET c == t.chat
  IN /\ t.pc = "perm"
     /\ CASE res = "granted" ->
               /\ ChatType(c) = "channel"
               /\ wk' = Resumed(t, [t EXCEPT !.pc = "send"])
               /\ Called(c, t.cur)
               /\ UNCHANGED <<send_queues, quiz_cache>>
          [] res \in {"denied", "denied_retry", "error"} ->
               /\ WorkerLoop(t, t, send_queues, quiz_cache)
               /\ ev' = Event("perm_dropped", c, t.cur, <<Note(c, "not_admin")>>)
               /\ maxCalled' = maxCalled
               /\ failed' = [failed EXCEPT ![c] = @ \ {t.cur.seq}]
          [] OTHER ->
               /\ WorkerExcept(t, t, "perm_raised")
               /\ UNCHANGED <<maxCalled, failed>>
     /\ UNCHANGED <<clock, editing_quiz_id, retry, polls, text, parsed_mcqs, premade, last_sent_time, quizzes, user_stats, channel_stats, known_channels,
                    target_channel, default_channel, hd, nupd, nseq, okCount>>

\* lines 291-300: send_poll returns a poll (the task goes on to sleep 0.5)
\* or raises
WorkerSend(t, ok) ==
  LET c == t.chat
      h == quiz_hash(t.cur.item)
  IN /\ t.pc = "send"
     /\ IF ok
        THEN /\ wk' = Resumed(t, [t EXCEPT !.pc = "sleep"])
             /\ okCount' = [okCount EXCEPT ![c][h] = @ + 1]
             /\ ev' = Quiet
             /\ UNCHANGED <<send_queues, quiz_cache, failed>>
        ELSE /\ WorkerExcept(t, t, "transient")
             /\ failed' = [failed EXCEPT ![c] = @ \cup {t.cur.seq}]
             /\ UNCHANGED okCount
     /\ UNCHANGED <<clock, editing_quiz_id, retry, polls, text, parsed_mcqs, premade, last_sent_time, quizzes, user_stats, channel_stats, known_channels,
                    target_channel, default_channel, hd, nupd, nseq, maxCalled>>

\* lines 300-313: the sleep is over; the first tuple a task sends without a
\* quiz_id is stored under its hash, and quiz_id keeps that value for the
\* rest of the run
WorkerRecord(t, ok) ==
  LET c == t.chat
      h == quiz_hash(t.cur.item)
      rec2 == IF t.quiz_id = NoId THEN [t EXCEPT !.quiz_id = h] ELSE t
  IN /\ t.pc = "sleep"
     /\ IF ok
        THEN /\ quizzes' = IF t.quiz_id = NoId /\ quizzes[h] = NoRow
                           THEN [quizzes EXCEPT ![h] = [item |-> t.cur.item, user |-> t.uid]]
                           ELSE quizzes
             /\ wk' = Resumed(t, [rec2 EXCEPT !.pc = "confirm", !.lang = TRUE])
             /\ ev' = Quiet
             /\ UNCHANGED <<send_queues, quiz_cache>>
        ELSE /\ WorkerExcept(t, rec2, "post_fail")
             /\ UNCHANGED quizzes
     /\ UNCHANGED <<clock, editing_quiz_id, retry, polls, text, parsed_mcqs, premade, last_sent_time, user_stats, channel_stats, known_channels,
                    target_channel, default_channel, hd, nupd, nseq, maxCalled, okCount, failed>>

\* lines 314-349: get_me, the quiz_sent message and the counter update
WorkerConfirm(t, ok) ==
  LET c == t.chat
  IN /\ t.pc = "confirm"
     /\ IF ok
        THEN /\ WorkerLoop(t, t, send_queues, quiz_cache)
             /\ IF t.priv
                THEN /\ user_stats' = [user_stats EXCEPT ![t.uid] = @ + 1]
                     /\ UNCHANGED channel_stats
                ELSE /\ channel_stats' = [channel_stats EXCEPT ![c] = @ + 1]
                     /\ UNCHANGED user_stats
             /\ ev' = Event("confirmed", c, t.cur, <<Note(c, "quiz_sent")>>)
        ELSE /\ WorkerExcept(t, t, "post_fail")
             /\ UNCHANGED <<user_stats, channel_stats>>
     /\ UNCHANGED <<clock, editing_quiz_id, retry, polls, text, parsed_mcqs, premade, last_sent_time, quizzes, known_channels, target_channel,
                    default_channel, hd, nupd, nseq, maxCalled, okCount, failed>>


\* ------------------------------------------------------------------ handlers
\* asyncio.create_task(process_queue(chat, context, user_id, is_private, quiz_id))
CreateTask(chat, uid, priv, quiz_id) == wk (+) SetToBag({NewTask(chat, uid, priv, quiz_id)})

\* line 369-371: override is never passed
Route(u, chat) ==
  IF target_channel[chat] # None THEN target_channel[chat]
  ELSE IF default_channel[u] # None THEN default_channel[u]
  ELSE chat

\* lines 387-391: candidates whose hash is in the cache of cid are passed over
SkipCachedCands(cands, cache) ==
  LET fresh == {i \in DOMAIN cands : quiz_hash(cands[i]) \notin cache}
  IN IF fresh = {} THEN << >>
     ELSE SubSeq(cands, CHOOSE i \in fresh : \A j \in fresh : i <= j, Len(cands))

\* the for loops of lines 382-406 from the current candidate up to the next
\* SELECT (line 392), or, past the last candidate, lines 407-410 and the
\* caller's "if not found" (lines 474-475, 485-486, 511-512)
EnqueueLoop(h, cands, found, caches) ==
  LET rest == SkipCachedCands(cands, caches[h.cid])
  IN IF rest # << >>
     THEN /\ hd' = [h EXCEPT !.pc = "enq_row", !.cands = rest, !.found = found]
          /\ UNCHANGED wk
          /\ ev' = Quiet
     ELSE /\ hd' = NoHandler
          /\ IF found
             THEN /\ wk' = CreateTask(h.cid, h.uid, h.priv, NoId)
                  /\ ev' = Quiet
             ELSE /\ UNCHANGED wk
                  /\ ev' = Event("not_found", h.cid, NoElem, <<Note(h.chat, "no_q")>>)

\* lines 362-368: the rate limit of enqueue_mcq, up to the SELECT of line 369.
\* soon: the update arrives less than 2 seconds after the time stored in
\* last_sent_time[u]; the float() of a user never stored is 0, decades ago
EnqueueBegin(u, chat, priv, soon, cands) ==
  IF last_sent_time[u] # 0 /\ soon
  THEN /\ ev' = Event("rate_limited", chat, NoElem,
                      <<Note(chat, "rate_limit"), Note(chat, "no_q")>>)
       /\ UNCHANGED <<last_sent_time, hd>>
  ELSE /\ last_sent_time' = [last_sent_time EXCEPT ![u] = 1]
       /\ hd' = [NoHandler EXCEPT !.pc = "enq_default", !.uid = u, !.chat = chat,
                                  !.priv = priv, !.cands = cands]
       /\ ev' = Quiet

\* handle_text in a private chat (lines 455-476)
HandleText(u, soon, cands) ==
  /\ hd.pc = "none" /\ nupd < MaxUpdates
  /\ nupd' = nupd + 1
  /\ EnqueueBegin(u, "pm", TRUE, soon, cands)
  /\ UNCHANGED <<clock, editing_quiz_id, retry, polls, text, parsed_mcqs, premade, send_queues, quiz_cache, quizzes, user_stats, channel_stats,
                 known_channels, target_channel, default_channel, wk, nseq,
                 maxCalled, okCount, failed>>

\* handle_channel_post (lines 488-512): the bot's rights are checked, the
\* channel is registered, then enqueue_mcq runs
HandleChannelPost(u, granted, soon, cands) ==
  /\ hd.pc = "none" /\ nupd < MaxUpdates
  /\ nupd' = nupd + 1
  /\ IF granted
     THEN /\ known_channels' = known_channels \cup {"chan"}
          /\ EnqueueBegin(u, "chan", FALSE, soon, cands)
     ELSE /\ ev' = Event("post_refused", "chan", NoElem, <<Note("chan", "not_admin")>>)
          /\ UNCHANGED <<known_channels, last_sent_time, hd>>
  /\ UNCHANGED <<clock, editing_quiz_id, retry, polls, text, parsed_mcqs, premade, send_queues, quiz_cache, quizzes, user_stats, channel_stats,
                 target_channel, default_channel, wk, nseq, maxCalled, okCount, failed>>

\* lines 369-381: the default channel is read, the destination chosen and
\* its queue length checked; then the loop over the candidates starts
EnqueueResolve ==
  LET cid == Route(hd.uid, hd.chat)
      h == [hd EXCEPT !.cid = cid]
  IN /\ hd.pc = "enq_default"
     /\ IF Len(send_queues[cid]) > QueueLimit
        THEN /\ hd' = NoHandler
             /\ ev' = Event("queue_full", cid, NoElem,
                            <<Note(cid, "queue_full"), Note(hd.chat, "no_q")>>)
             /\ UNCHANGED wk
        ELSE EnqueueLoop(h, hd.cands, FALSE, quiz_cache)
     /\ UNCHANGED <<clock, editing_quiz_id, retry, polls, text, parsed_mcqs, premade, send_queues, quiz_cache, last_sent_time, quizzes, user_stats, channel_stats,
                    known_channels, target_channel, default_channel, nupd, nseq,
                    maxCalled, okCount, failed>>

\* the candidate put in front of the queue, appendleft in the place of append
EnqueueRow_head ==
  LET c == Head(hd.cands)
      h == quiz_hash(c)
      cid == hd.cid
  IN /\ hd.pc = "enq_row"
     /\ IF QuizRow(h) # NoRow
        THEN /\ quiz_cache' = [quiz_cache EXCEPT ![cid] = @ \cup {h}]
             /\ UNCHANGED <<send_queues, nseq>>
             /\ EnqueueLoop(hd, Tail(hd.cands), hd.found, quiz_cache')
        ELSE /\ send_queues' = [send_queues EXCEPT ![cid] = <<Elem(c, nseq[cid] + 1)>> \o @]
             /\ nseq' = [nseq EXCEPT ![cid] = @ + 1]
             /\ UNCHANGED quiz_cache
             /\ EnqueueLoop(hd, Tail(hd.cands), TRUE, quiz_cache)
     /\ UNCHANGED <<clock, editing_quiz_id, retry, polls, text, parsed_mcqs, premade, last_sent_time, quizzes, user_stats, channel_stats, known_channels,
                    target_channel, default_channel, nupd, maxCalled, okCount, failed>>

\* lines 392-398: the SELECT for the current candidate returns; a stored row
\* makes it a duplicate, otherwise it is appended
EnqueueRow ==
  LET c == Head(hd.cands)
      h == quiz_hash(c)
      cid == hd.cid
  IN /\ hd.pc = "enq_row"
     /\ IF QuizRow(h) # NoRow
        THEN /\ quiz_cache' = [quiz_cache EXCEPT ![cid] = @ \cup {h}]
             /\ UNCHANGED <<send_queues, nseq>>
             /\ EnqueueLoop(hd, Tail(hd.cands), hd.found, quiz_cache')
        ELSE /\ send_queues' = [send_queues EXCEPT ![cid] = Append(@, Elem(c, nseq[cid] + 1))]
             /\ nseq' = [nseq EXCEPT ![cid] = @ + 1]
             /\ UNCHANGED quiz_cache
             /\ EnqueueLoop(hd, Tail(hd.cands), TRUE, quiz_cache)
     /\ UNCHANGED <<clock, editing_quiz_id, retry, polls, text, parsed_mcqs, premade, last_sent_time, quizzes, user_stats, channel_stats, known_channels,
                    target_channel, default_channel, nupd, maxCalled, okCount, failed>>

\* start (lines 514-530) with the argument quiz_<quiz_id>
StartQuiz(u, chat, quiz_id) ==
  /\ hd.pc = "none" /\ nupd < MaxUpdates
  /\ nupd' = nupd + 1
  /\ IF QuizRow(quiz_id) # NoRow
     THEN /\ send_queues' = [send_queues EXCEPT ![chat] =
                               Append(@, Elem(QuizRow(quiz_id).item, nseq[chat] + 1))]
          /\ nseq' = [nseq EXCEPT ![chat] = @ + 1]
          /\ wk' = CreateTask(chat, u, FALSE, quiz_id)
          /\ ev' = Quiet
     ELSE /\ ev' = Event("deep_link_missing", chat, NoElem, <<Note(chat, "no_q")>>)
          /\ UNCHANGED <<send_queues, nseq, wk>>
  /\ UNCHANGED <<clock, editing_quiz_id, retry, polls, text, parsed_mcqs, premade, quiz_cache, last_sent_time, quizzes, user_stats, channel_stats, known_channels,
                 target_channel, default_channel, hd, maxCalled, okCount, failed>>

\* ------------------------------------------------- callback_query_handler
\* callback data, split at "_"
CallbackCmds == { <<"choose", "chan">>, <<"set", "default", "chan">>,
                  <<"post", "to", "chan">>,
                  <<"repost", "to", "h1", "chan">>, <<"share", "to", "h1", "chan">> }

\* cmd.startswith(pre + "_")
StartsWith(cmd, pre) == Len(cmd) > Len(pre) /\ SubSeq(cmd, 1, Len(pre)) = pre

\* the if / elif chain of lines 643-762, in its order (the exact-match
\* commands before choose_ carry no argument and are not in CallbackCmds)
Branch(cmd) ==
  IF StartsWith(cmd, <<"choose">>) THEN "choose"
  ELSE IF StartsWith(cmd, <<"set", "default">>) THEN "set_default"
  ELSE IF StartsWith(cmd, <<"repost">>) THEN "repost"
  ELSE IF StartsWith(cmd, <<"repost", "to">>) THEN "repost_to"
  ELSE IF StartsWith(cmd, <<"share">>) THEN "share"
  ELSE IF StartsWith(cmd, <<"share", "to">>) THEN "share_to"
  ELSE IF StartsWith(cmd, <<"quizzes">>) THEN "quizzes"
  ELSE IF StartsWith(cmd, <<"post", "to">>) THEN "post_to"
  ELSE "unsupported"

Callback(u, chat, cmd) ==
  LET b == Branch(cmd)
  IN /\ hd.pc = "none" /\ nupd < MaxUpdates
     /\ nupd' = nupd + 1
     /\ CASE b = "choose" ->
               \* lines 663-670: cid = cmd.split("_")[1]
               /\ IF cmd[2] \in known_channels
                  THEN /\ target_channel' = [target_channel EXCEPT ![chat] = cmd[2]]
                       /\ ev' = Event("callback", chat, NoElem, <<Note(chat, "channel_selected")>>)
                  ELSE /\ ev' = Event("callback", chat, NoElem, <<Note(chat, "no_channels")>>)
                       /\ UNCHANGED target_channel
               /\ UNCHANGED <<default_channel, send_queues, nseq, wk>>
          [] b = "set_default" ->
               \* lines 671-682: cid = cmd.split("_")[2]
               /\ IF cmd[3] \in known_channels
                  THEN /\ default_channel' = [default_channel EXCEPT ![u] = cmd[3]]
                       /\ ev' = Event("callback", chat, NoElem, <<Note(chat, "set_channel_success")>>)
                  ELSE /\ ev' = Event("callback", chat, NoElem, <<Note(chat, "no_channels")>>)
                       /\ UNCHANGED default_channel
               /\ UNCHANGED <<target_channel, send_queues, nseq, wk>>
          [] b = "repost" ->
               \* lines 683-698: quiz_id = cmd.split("_")[1]
               /\ ev' = Event("callback", chat, NoElem,
                     <<Note(chat, IF QuizRow(cmd[2]) = NoRow THEN "no_q"
                                  ELSE IF known_channels = {} THEN "no_channels"
                                  ELSE "choose_repost_destination")>>)
               /\ UNCHANGED <<target_channel, default_channel, send_queues, nseq, wk>>
          [] b = "share" ->
               \* lines 716-728: quiz_id = cmd.split("_")[1]
               /\ ev' = Event("callback", chat, NoElem,
                     <<Note(chat, IF known_channels = {} THEN "no_channels"
                                  ELSE "choose_where_to_share")>>)
               /\ UNCHANGED <<target_channel, default_channel, send_queues, nseq, wk>>
          [] b \in {"repost_to", "share_to"} ->
               \* lines 699-715, 729-744: cmd.split("_", 2) leaves
               \* "<quiz_id>_<chat_id>" in cid, and int(cid) raises
               /\ ev' = Event("callback_raised", chat, NoElem, << >>)
               /\ UNCHANGED <<target_channel, default_channel, send_queues, nseq, wk>>
          [] b = "post_to" ->
               \* lines 762-772: cid = cmd.split("_")[2]
               /\ IF cmd[3] \in known_channels
                  THEN /\ target_channel' = [target_channel EXCEPT ![chat] = cmd[3]]
                       /\ wk' = CreateTask(cmd[3], u, FALSE, NoId)
                       /\ ev' = Event("callback", chat, NoElem, <<Note(chat, "quiz_posted_to")>>)
                  ELSE /\ ev' = Event("callback", chat, NoElem, <<Note(chat, "no_channels")>>)
                       /\ UNCHANGED <<target_channel, wk>>
               /\ UNCHANGED <<default_channel, send_queues, nseq>>
          [] OTHER ->
               /\ ev' = Event("callback", chat, NoElem, <<Note(chat, "unsupported")>>)
               /\ UNCHANGED <<target_channel, default_channel, send_queues, nseq, wk>>
     /\ UNCHANGED <<clock, editing_quiz_id, retry, polls, text, parsed_mcqs, premade, quiz_cache, last_sent_time, quizzes, user_stats, channel_stats,
                    known_channels, hd, maxCalled, okCount, failed>>

\* schedule_cleanup (lines 186-199), one round
Cleanup ==
  /\ nupd < MaxUpdates
  /\ nupd' = nupd + 1
  /\ known_channels' = {c \in known_channels : channel_stats[c] > 0}
  /\ quiz_cache' = [c \in Chats |-> {}]
  /\ ev' = Quiet
  /\ UNCHANGED <<clock, editing_quiz_id, retry, polls, text, parsed_mcqs, premade, send_queues, last_sent_time, quizzes, user_stats, channel_stats, target_channel,
                 default_channel, wk, hd, nseq, maxCalled, okCount, failed>>

Next ==
  \/ \E u \in Users, soon \in BOOLEAN, m \in Messages : HandleText(u, soon, m)
  \/ \E u \in Users, g, soon \in BOOLEAN, m \in Messages : HandleChannelPost(u, g, soon, m)
  \/ EnqueueResolve
  \/ EnqueueRow
  \/ \E u \in Users, q \in Hashes : StartQuiz(u, "pm", q)
  \/ \E u \in Users, cmd \in CallbackCmds : Callback(u, "pm", cmd)
  \/ Cleanup
  \/ \E t \in BagToSet(wk) : WorkerStart(t)
  \/ \E t \in BagToSet(wk) : WorkerDbResult(t)
  \/ \E t \in BagToSet(wk), r \in PermResults : WorkerPerm(t, r)
  \/ \E t \in BagToSet(wk), ok \in BOOLEAN : WorkerSend(t, ok)
  \/ \E t \in BagToSet(wk), ok \in BOOLEAN : WorkerRecord(t, ok)
  \/ \E t \in BagToSet(wk), ok \in BOOLEAN : WorkerConfirm(t, ok)

Spec == Init /\ [][Next]_vars

\* ----------------------------------------------- the queue at its capacity
\* one message whose blocks parse to QueueLimit questions, and a short one
Repeat(it, n) == [i \in 1..n |-> it]
CapMessages == {Repeat(I1, QueueLimit), <<I2>>}

NextCap ==
  \/ \E u \in Users, soon \in BOOLEAN, m \in CapMessages : HandleText(u, soon, m)
  \/ EnqueueResolve
  \/ EnqueueRow
  \/ \E t \in BagToSet(wk) : WorkerStart(t)
  \/ \E t \in BagToSet(wk) : WorkerDbResult(t)
  \/ \E t \in BagToSet(wk), ok \in BOOLEAN : WorkerSend(t, ok)
  \/ \E t \in BagToSet(wk), ok \in BOOLEAN : WorkerRecord(t, ok)
  \/ \E t \in BagToSet(wk), ok \in BOOLEAN : WorkerConfirm(t, ok)

SpecCap == Init /\ [][NextCap]_vars

\* ------------------------------------------------- the private chat alone
\* messages and /start quiz_<id> in the private chat, with no channel chosen:
\* every tuple goes to the queue of the private chat
NextPrivate ==
  \/ \E u \in Users, soon \in BOOLEAN, m \in Messages : HandleText(u, soon, m)
  \/ EnqueueResolve
  \/ EnqueueRow
  \/ \E u \in Users, q \in Hashes : StartQuiz(u, "pm", q)
  \/ \E t \in BagToSet(wk) : WorkerStart(t)
  \/ \E t \in BagToSet(wk) : WorkerDbResult(t)
  \/ \E t \in BagToSet(wk), r \in PermResults : WorkerPerm(t, r)
  \/ \E t \in BagToSet(wk), ok \in BOOLEAN : WorkerSend(t, ok)
  \/ \E t \in BagToSet(wk), ok \in BOOLEAN : WorkerRecord(t, ok)
  \/ \E t \in BagToSet(wk), ok \in BOOLEAN : WorkerConfirm(t, ok)

SpecPrivate == Init /\ [][NextPrivate]_vars

\* a task that can run does run: the event loop resumes every task whose
\* await has returned or raised, and every await of process_queue returns
\* or raises
WorkerStep ==
  \E t \in BagToSet(wk) :
    \/ WorkerStart(t)
    \/ WorkerDbResult(t)
    \/ \E r \in PermResults : WorkerPerm(t, r)
    \/ \E ok \in BOOLEAN : WorkerSend(t, ok) \/ WorkerRecord(t, ok) \/ WorkerConfirm(t, ok)

\* the private chat with messages of one and of two questions and the deep
\* link of the first question, every task running when it can
DrainMessages == {<<I2>>, <<I1, I2>>}

NextDrain ==
  \/ \E u \in Users, m \in DrainMessages : HandleText(u, FALSE, m)
  \/ EnqueueResolve
  \/ EnqueueRow
  \/ \E u \in Users : StartQuiz(u, "pm", quiz_hash(I1))
  \/ \E t \in BagToSet(wk) : WorkerStart(t)
  \/ \E t \in BagToSet(wk) : WorkerDbResult(t)
  \/ \E t \in BagToSet(wk), r \in PermResults : WorkerPerm(t, r)
  \/ \E t \in BagToSet(wk), ok \in BOOLEAN : WorkerSend(t, ok)
  \/ \E t \in BagToSet(wk), ok \in BOOLEAN : WorkerRecord(t, ok)
  \/ \E t \in BagToSet(wk), ok \in BOOLEAN : WorkerConfirm(t, ok)

SpecDrain == Init /\ [][NextDrain]_vars /\ WF_vars(WorkerStep)

\* ------------------------------------------------- a channel known already
\* stats.db outlives the process: the table known_channels holds the channel
\* that an earlier run registered (line 504), everything else is as built
InitRouted ==
  /\ send_queues = [c \in Chats |-> << >>]
  /\ quiz_cache = [c \in Chats |-> {}]
  /\ last_sent_time = [u \in Users |-> 0]
  /\ quizzes = [h \in Hashes |-> NoRow]
  /\ user_stats = [u \in Users |-> 0]
  /\ channel_stats = [c \in Chats |-> 0]
  /\ known_channels = {"chan"}
  /\ target_channel = [c \in Chats |-> None]
  /\ default_channel = [u \in Users |-> None]
  /\ wk = EmptyBag
  /\ hd = NoHandler
  /\ nupd = 0
  /\ nseq = [c \in Chats |-> 0]
  /\ maxCalled = [c \in Chats |-> 0]
  /\ okCount = [c \in Chats |-> [h \in Hashes |-> 0]]
  /\ failed = [c \in Chats |-> {}]
  /\ ev = Quiet
  /\ text = << >>
  /\ parsed_mcqs = NoRes
  /\ premade = Match(<< >>, 0)
  /\ OtherIdle

\* messages and button presses in the private chat
NextRouted ==
  \/ \E u \in Users, soon \in BOOLEAN, m \in Messages : HandleText(u, soon, m)
  \/ EnqueueResolve
  \/ EnqueueRow
  \/ \E u \in Users, cmd \in CallbackCmds : Callback(u, "pm", cmd)
  \/ \E t \in BagToSet(wk) : WorkerStart(t)
  \/ \E t \in BagToSet(wk) : WorkerDbResult(t)
  \/ \E t \in BagToSet(wk), r \in PermResults : WorkerPerm(t, r)
  \/ \E t \in BagToSet(wk), ok \in BOOLEAN : WorkerSend(t, ok)
  \/ \E t \in BagToSet(wk), ok \in BOOLEAN : WorkerRecord(t, ok)
  \/ \E t \in BagToSet(wk), ok \in BOOLEAN : WorkerConfirm(t, ok)

SpecRouted == InitRouted /\ [][NextRouted]_vars

\* ---------------------------------------------------------------- parse_mcq
\* A string is the sequence of its characters.  A character is written as a
\* one-character string; an Arabic letter or digit as its name ("alef" for
\* U+0623, "seen" for U+0633, "tatweel" for U+0640, "ar1" for U+0661).  The
\* Arabic literals of the file are read as the characters their bytes encode.

\* the character class of line 202; the backquote is left out, no text below
\* holds one
Special == {"_", "*", "[", "]", "(", ")", "~", ">", "#", "+", "-", "=", "|",
            "{", "}", ".", "!"}

\* re.sub(r'([_*[\]()~`>#+\-=|{}.!])', r'\\\1', text): every character of
\* the class gets a backslash in front of it, the others stay.  The matches
\* are single characters, so the result of a text is that of its first half
\* followed by that of its second half; the text is halved rather than
\* walked character by character to keep the evaluation shallow on the long
\* texts
RECURSIVE escape_markdown(_)
escape_markdown(s) ==
  IF s = << >> THEN << >>
  ELSE IF Len(s) = 1
       THEN (IF s[1] \in Special THEN <<"\\", s[1]>> ELSE <<s[1]>>)
       ELSE escape_markdown(SubSeq(s, 1, Len(s) \div 2))
              \o escape_markdown(SubSeq(s, Len(s) \div 2 + 1, Len(s)))

ascii_uppercase == <<"A", "B", "C", "D", "E", "F", "G", "H", "I", "J", "K", "L", "M",
                     "N", "O", "P", "Q", "R", "S", "T", "U", "V", "W", "X", "Y", "Z">>
ascii_lowercase == <<"a", "b", "c", "d", "e", "f", "g", "h", "i", "j", "k", "l", "m",
                     "n", "o", "p", "q", "r", "s", "t", "u", "v", "w", "x", "y", "z">>

\* str.lower(): the Arabic characters have no case
lower(s) ==
  [i \in 1..Len(s) |->
     IF \E j \in DOMAIN ascii_uppercase : ascii_uppercase[j] = s[i]
     THEN ascii_lowercase[CHOOSE j \in DOMAIN ascii_uppercase : ascii_uppercase[j] = s[i]]
     ELSE s[i]]

\* str.strip()
strip(s) ==
  LET kept == {i \in 1..Len(s) : s[i] \notin {" ", "\n"}}
  IN IF kept = {} THEN << >>
     ELSE SubSeq(s, CHOOSE i \in kept : \A j \in kept : i <= j,
                    CHOOSE i \in kept : \A j \in kept : j <= i)

\* the ASCII digits and the Arabic-Indic digits U+0660..U+0669, by value
ascii_digits == <<"0", "1", "2", "3", "4", "5", "6", "7", "8", "9">>
arabic_digits == <<"ar0", "ar1", "ar2", "ar3", "ar4", "ar5", "ar6", "ar7", "ar8", "ar9">>

\* the set of the elements of a sequence
Range(s) == {s[i] : i \in DOMAIN s}
\* the one-character strings over a set of characters
Str1(chars) == {<<c>> : c \in chars}

\* lines 46-47: each Arabic-Indic digit and each ASCII digit to the ASCII digit
ARABIC_DIGITS ==
  [k \in Str1(Range(arabic_digits) \cup Range(ascii_digits)) |->
     ascii_digits[CHOOSE i \in DOMAIN ascii_digits :
                    k[1] = arabic_digits[i] \/ k[1] = ascii_digits[i]]]

\* int() of one ASCII digit
int(d) == (CHOOSE i \in DOMAIN ascii_digits : ascii_digits[i] = d) - 1

\* lines 48-49: A-L and a-l to 0..11
EN_LETTERS ==
  [k \in Str1({ascii_uppercase[i] : i \in 1..12} \cup {ascii_lowercase[i] : i \in 1..12}) |->
     (CHOOSE i \in 1..12 : k[1] = ascii_uppercase[i] \/ k[1] = ascii_lowercase[i]) - 1]

\* line 50: the keys in the order of their values 0..11; the key of 4 is the
\* two-character string heh, tatweel
AR_LETTERS_keys ==
  << <<"alef">>, <<"beh">>, <<"jeem">>, <<"dal">>, <<"heh", "tatweel">>, <<"waw">>,
     <<"zain">>, <<"hah">>, <<"tah">>, <<"yeh">>, <<"kaf">>, <<"lam">> >>
AR_LETTERS ==
  [k \in Range(AR_LETTERS_keys) |->
     (CHOOSE i \in DOMAIN AR_LETTERS_keys : AR_LETTERS_keys[i] = k) - 1]

\* lines 224-236: the label is a key of one of the three maps.  Otherwise
\* int(ans) is taken: of the characters the answer groups capture none that
\* is no key of ARABIC_DIGITS is a digit, int() raises ValueError and the
\* candidate is passed over
Recognized(ans) ==
  ans \in DOMAIN ARABIC_DIGITS \cup DOMAIN EN_LETTERS \cup DOMAIN AR_LETTERS

\* lines 224-229: idx, the maps tried in the order of the if chain
AnswerIndex(ans) ==
  IF ans \in DOMAIN ARABIC_DIGITS THEN int(ARABIC_DIGITS[ans])
  ELSE IF ans \in DOMAIN EN_LETTERS THEN EN_LETTERS[ans]
  ELSE AR_LETTERS[ans]

\* The blocks parsed here are made of questions written one under the other:
\*     <prefix>: <q>             (or <q> alone, with no prefix)
\*     <marker><delim> <option>  (one line per option)
\*     Answer: <ans>
\* prefix is Q or seen, the markers of a question are of one style: the
\* letters A, B, ... or a, b, ..., the Arabic letters, the numbers 1, 2, ...
\* in ASCII or in Arabic-Indic digits.
arabic_markers == <<"alef", "beh", "jeem", "dal", "heh", "waw", "zain", "hah",
                    "tah", "yeh", "kaf", "lam">>

\* str(k) for 0 <= k < 100, over the digits ds
Decimal(ds, k) ==
  IF k < 10 THEN <<ds[k + 1]>> ELSE <<ds[(k \div 10) + 1], ds[(k % 10) + 1]>>

\* the marker of the k-th option line
Marker(style, k) ==
  CASE style = "upper" -> <<ascii_uppercase[k]>>
    [] style = "lower" -> <<ascii_lowercase[k]>>
    [] style = "arabic" -> <<arabic_markers[k]>>
    [] style = "digit" -> Decimal(ascii_digits, k)
    [] style = "adigit" -> Decimal(arabic_digits, k)

\* the characters of the model that the class [U+0623-U+064A] holds, and the
\* class [A-Za-zU+0623-U+064A0-9U+0661-U+0669] of patterns 3 and 6
ArabicRange == Range(arabic_markers) \cup {"seen", "tatweel"}
AJ == {ascii_uppercase[i] : i \in 1..10}
Ar19 == Range(arabic_digits) \ {"ar0"}
AnyLabel == Range(ascii_uppercase) \cup Range(ascii_lowercase) \cup ArabicRange
              \cup Range(ascii_digits) \cup Ar19
Punct == {")", ".", ":"}

\* lines 53-96.  Of each regular expression: the prefixes it consumes before
\* group q and whether one is required; the class of an option marker,
\* whether the marker is a run of them (\d+), and the class of what follows
\* it; the class of group ans.
PATTERNS ==
  << [pre |-> {<<"Q">>}, need |-> TRUE, marks |-> AJ, run |-> FALSE,
      delims |-> Punct, ans |-> AJ \cup Range(ascii_digits)],
     [pre |-> {<<"seen">>}, need |-> TRUE, marks |-> ArabicRange, run |-> FALSE,
      delims |-> Punct, ans |-> ArabicRange \cup Ar19],
     [pre |-> {}, need |-> FALSE, marks |-> AnyLabel, run |-> FALSE,
      delims |-> Punct, ans |-> AnyLabel],
     [pre |-> {<<"seen">>}, need |-> TRUE, marks |-> ArabicRange, run |-> FALSE,
      delims |-> {"."}, ans |-> ArabicRange \cup Ar19],
     [pre |-> {<<"Q">>, <<"seen">>}, need |-> FALSE,
      marks |-> Range(ascii_digits) \cup Range(arabic_digits), run |-> TRUE,
      delims |-> Punct, ans |-> Range(ascii_digits) \cup Ar19],
     [pre |-> {<<"Q">>, <<"seen">>}, need |-> FALSE, marks |-> AnyLabel, run |-> FALSE,
      delims |-> {" "}, ans |-> AnyLabel] >>

\* a marker followed by delim starts a repetition of group opts
MarkerMatches(p, m, delim) ==
  /\ IF p.run THEN \A i \in DOMAIN m : m[i] \in p.marks
     ELSE Len(m) = 1 /\ m[1] \in p.marks
  /\ delim \in p.delims

\* pattern p matches question s: its prefix, two option lines at least
\* ({2,10}; with re.S the last repetition takes in the lines that no further
\* repetition can) and the first character of the answer
Matches(p, s) ==
  /\ p.need => s.prefix \in p.pre
  /\ Len(s.opts) >= 2
  /\ MarkerMatches(p, Marker(s.style, 1), s.delim)
  /\ MarkerMatches(p, Marker(s.style, 2), s.delim)
  /\ Head(s.ans) \in p.ans

\* m.group("q"): the first line, less the prefix the pattern consumed
GroupQ(p, s) ==
  IF s.prefix = << >> \/ s.prefix \in p.pre THEN s.q
  ELSE s.prefix \o <<":", " ">> \o s.q

\* the range test with its upper limit taken in
InRange_loose(idx, opts) == 0 <= idx /\ idx <= Len(opts)

\* line 238
InRange(idx, opts) == 0 <= idx /\ idx < Len(opts)

\* the count test with eleven let through
CountOk_eleven(opts) == 2 <= Len(opts) /\ Len(opts) <= 11

\* line 217
CountOk(opts) == 2 <= Len(opts) /\ Len(opts) <= 10

\* what lines 209-240 do with one match: append the tuple built ("ok"),
\* continue ("skip"), or the return [] of line 222 ("abort")
Candidate(p, s) ==
  LET q == escape_markdown(strip(GroupQ(p, s)))
      opts == [k \in DOMAIN s.opts |-> escape_markdown(strip(s.opts[k]))]
      ans == <<Head(s.ans)>>
  IN IF ~CountOk(opts) THEN [kind |-> "skip"]
     ELSE IF Cardinality({lower(opts[k]) : k \in DOMAIN opts}) # Len(opts)
          THEN [kind |-> "abort"]
     ELSE IF ~Recognized(ans) THEN [kind |-> "skip"]
     ELSE IF ~InRange(AnswerIndex(ans), opts) THEN [kind |-> "skip"]
     ELSE [kind |-> "ok", item |-> [q |-> q, opts |-> opts, idx |-> AnswerIndex(ans)]]

\* patt.finditer(text): the questions of the block that pattern p matches
RECURSIVE finditer(_, _)
finditer(p, txt) ==
  IF txt = << >> THEN << >>
  ELSE (IF Matches(p, Head(txt)) THEN <<[p |-> p, s |-> Head(txt)]>> ELSE << >>)
         \o finditer(p, Tail(txt))

\* the matches of the two for loops of lines 207-208, in the order the loops
\* visit them
RECURSIVE AllMatches(_, _)
AllMatches(i, txt) ==
  IF i > Len(PATTERNS) THEN << >>
  ELSE finditer(PATTERNS[i], txt) \o AllMatches(i + 1, txt)

\* the body of the loops over the matches ms, res so far being acc
RECURSIVE ParseLoop(_, _)
ParseLoop(ms, acc) ==
  IF ms = << >> THEN acc
  ELSE LET c == Candidate(Head(ms).p, Head(ms).s)
       IN IF c.kind = "abort" THEN << >>
          ELSE IF c.kind = "skip" THEN ParseLoop(Tail(ms), acc)
          ELSE ParseLoop(Tail(ms), Append(acc, c.item))

parse_mcq(txt) == ParseLoop(AllMatches(1, txt), << >>)

\* ------------------------------------------------------ the blocks parsed
Question == <<"2", "+", "2", "?">>
LongQuestion == [i \in 1..LongQuestionLen |-> "y"]
LongOption == [i \in 1..LongOptionLen |-> "y"]

\* twelve option texts, no two alike whatever the case
OptionPool ==
  << <<"3">>, <<"4">>, <<"-", "1">>, <<"x">>, <<"z">>, <<"r">>, <<"s">>, <<"t">>,
     <<"u">>, <<"v">>, <<"w">>, <<"n">> >>

\* option lists of 1..MaxOptions texts, two with a text repeated (one of them
\* in the other case) and one with a long text
OptionLists ==
  {SubSeq(OptionPool, 1, n) : n \in 1..MaxOptions}
    \cup { << <<"x">>, <<"X">> >>, << <<"3">>, <<"4">>, <<"3">> >>,
           << <<"3">>, LongOption >> }

Styles == {"upper", "lower", "arabic", "digit", "adigit"}
\* a question is written without prefix or with the prefix of its script,
\* its markers are followed by ")" or, the Arabic letters and the ASCII
\* numbers, by "."
Prefixes(style) ==
  {<< >>} \cup (IF style \in {"arabic", "adigit"} THEN {<<"seen">>} ELSE {<<"Q">>})
Delims(style) == {")"} \cup (IF style \in {"arabic", "digit"} THEN {"."} ELSE {})

\* the answers written under options of a style: the marker of any line up
\* to MaxOptions, a letter in the other case, and the numbers 0..MaxOptions
Labels(style) ==
  {Marker(style, k) : k \in 1..MaxOptions}
    \cup {Decimal(ascii_digits, k) : k \in 0..MaxOptions}
    \cup (CASE style = "upper" -> {<<"b">>}
            [] style = "lower" -> {<<"B">>}
            [] style = "adigit" -> {<<"ar0">>}
            [] OTHER -> {})

Seg(prefix, q, style, delim, opts, ans) ==
  [prefix |-> prefix, q |-> q, style |-> style, delim |-> delim, opts |-> opts, ans |-> ans]

\* blocks of one question
Singles ==
  UNION {{<<Seg(pre, Question, st, d, o, a)>> :
            pre \in Prefixes(st), d \in Delims(st), o \in OptionLists, a \in Labels(st)} :
         st \in Styles}
    \cup {<<Seg(<<"Q">>, LongQuestion, "upper", ")", SubSeq(OptionPool, 1, 2), <<"A">>)>>}

\* questions that follow another in a block: no prefix, two options, alike or not
Short(st, d) ==
  {Seg(<< >>, Question, st, d, o, Marker(st, k)) :
     o \in {SubSeq(OptionPool, 1, 2), << <<"x">>, <<"X">> >>}, k \in 1..2}

\* the blocks of n such questions, of one style
RECURSIVE Blocks(_, _, _)
Blocks(st, d, n) ==
  IF n = 0 THEN {<< >>}
  ELSE {<<s>> \o b : s \in Short(st, d), b \in Blocks(st, d, n - 1)}

ParseTexts ==
  Singles \cup UNION {Blocks(st, ")", n) : st \in Styles, n \in 2..MaxSegs}

\* ------------------------------------------- a block parsed and submitted
InitParse ==
  /\ Constructed
  /\ text \in ParseTexts
  /\ parsed_mcqs = NoRes
  /\ premade = Match(<< >>, 0)
  /\ OtherIdle

\* parse_mcq(text) runs and returns
ParseBlock ==
  /\ ~parsed_mcqs.done
  /\ parsed_mcqs' = [done |-> TRUE, out |-> parse_mcq(text)]
  /\ UNCHANGED <<send_queues, quiz_cache, last_sent_time, quizzes, user_stats, channel_stats,
                 known_channels, target_channel, default_channel, wk, hd, nupd,
                 nseq, maxCalled, okCount, failed, ev, text, premade,
                 clock, editing_quiz_id, retry, polls>>

\* the block is sent as a message in the private chat: enqueue_mcq is given
\* what line 383 gets from parse_mcq
NextParse ==
  \/ ParseBlock
  \/ \E u \in Users, soon \in BOOLEAN : HandleText(u, soon, parse_mcq(text))
  \/ EnqueueResolve
  \/ EnqueueRow

SpecParse == InitParse /\ [][NextParse]_vars

\* ------------------------------------------------------ parse_premade_mcq
\* (src/Bot_mcq0.4v.py and src/Bot_mcq0.5v.py, the same lines in both)
\* the option lists of a match: 1..MaxPremade texts, alike or not
PremadeOptions == UNION {[1..n -> {"a", "b", "c"}] : n \in 1..MaxPremade}

\* the orders random.shuffle can leave n items in
Orders(n) == {p \in [1..n -> 1..n] : \A i, j \in 1..n : i # j => p[i] # p[j]}

\* the correct index taken over as it was
NewIndex_kept(indexed, ans_idx) == ans_idx

\* line 247: the place of the item whose idx is ans_idx
NewIndex(indexed, ans_idx) ==
  (CHOOSE i \in DOMAIN indexed : indexed[i].idx = ans_idx) - 1

\* a match whose ans_idx passed the range test of line 241
InitPremade ==
  /\ Constructed
  /\ text = << >>
  /\ parsed_mcqs = NoRes
  /\ OtherIdle
  /\ \E opts \in PremadeOptions, a \in 0..(MaxPremade - 1) :
       /\ a < Len(opts)
       /\ premade = Match(opts, a)

\* lines 244-247: the options are paired with their places, shuffled into
\* order, and the texts and the new place of the answer read off
ShuffleOptions(order) ==
  LET opts == premade.opts
      paired == [i \in DOMAIN opts |-> [idx |-> i - 1, text |-> opts[i]]]
      indexed == [i \in DOMAIN opts |-> paired[order[i]]]
  IN /\ ~premade.done
     /\ premade' = [premade EXCEPT !.done = TRUE,
                                    !.indexed = indexed,
                                    !.shuffled = [i \in DOMAIN opts |-> indexed[i].text],
                                    !.new_index = NewIndex(indexed, premade.ans_idx)]
     /\ UNCHANGED <<send_queues, quiz_cache, last_sent_time, quizzes, user_stats,
                    channel_stats, known_channels, target_channel, default_channel,
                    wk, hd, nupd, nseq, maxCalled, okCount, failed, ev, text, parsed_mcqs,
                    clock, editing_quiz_id, retry, polls>>

\* random.shuffle may leave the pairs in any order; a match is shuffled once
NextPremade ==
  /\ ~premade.done
  /\ \E order \in Orders(Len(premade.opts)) : ShuffleOptions(order)

SpecPremade == InitPremade /\ [][NextPremade]_vars

\* ------------------------------------------------- the rate limit in time
\* Two users, each in their own private chat, and a clock of whole seconds.
\* time.time() is far from the float() of a user never stored: the clock
\* starts RateWindow after 0.
RateWindow == 2
MaxClock == 5
MaxSubmits == 3
RateUsers == {"u1", "u2"}
PrivateChat(u) == IF u = "u1" THEN "pm" ELSE "pm2"
RateChats == {PrivateChat(u) : u \in RateUsers}
RateMessages == {<< >>, <<I1>>}

\* the module-level state for the two users, the tables of stats.db but
\* quizzes empty
TwoUsers ==
  /\ send_queues = [c \in RateChats |-> << >>]
  /\ quiz_cache = [c \in RateChats |-> {}]
  /\ last_sent_time = [u \in RateUsers |-> 0]
  /\ user_stats = [u \in RateUsers |-> 0]
  /\ channel_stats = [c \in RateChats |-> 0]
  /\ known_channels = {}
  /\ target_channel = [c \in RateChats |-> None]
  /\ default_channel = [u \in RateUsers |-> None]
  /\ wk = EmptyBag
  /\ hd = NoHandler
  /\ nupd = 0
  /\ nseq = [c \in RateChats |-> 0]
  /\ maxCalled = [c \in RateChats |-> 0]
  /\ okCount = [c \in RateChats |-> [h \in Hashes |-> 0]]
  /\ failed = [c \in RateChats |-> {}]
  /\ ev = Quiet
  /\ text = << >>
  /\ parsed_mcqs = NoRes
  /\ premade = Match(<< >>, 0)
  /\ retry = NoRetry
  /\ polls = NoPolls

InitRate ==
  /\ TwoUsers
  /\ quizzes = [h \in Hashes |-> NoRow]
  /\ clock = [now |-> RateWindow, accepted |-> [u \in RateUsers |-> {}]]
  /\ editing_quiz_id = NoEditing

\* a second goes by
Tick ==
  /\ clock.now < MaxClock
  /\ clock' = [clock EXCEPT !.now = @ + 1]
  /\ UNCHANGED <<send_queues, quiz_cache, last_sent_time, quizzes, user_stats, channel_stats,
                 known_channels, target_channel, default_channel, wk, hd, nupd, nseq,
                 maxCalled, okCount, failed, ev, text, parsed_mcqs, premade,
                 editing_quiz_id, retry, polls>>

\* the rate limit with the stamp stored before the test
EnqueueBeginAt_restart(u, chat, priv, cands) ==
  /\ last_sent_time' = [last_sent_time EXCEPT ![u] = clock.now]
  /\ IF clock.now - last_sent_time[u] < RateWindow
     THEN /\ ev' = Event("rate_limited", chat, NoElem,
                         <<Note(chat, "rate_limit"), Note(chat, "no_q")>>)
          /\ UNCHANGED <<hd, clock>>
     ELSE /\ clock' = [clock EXCEPT !.accepted[u] = @ \cup {clock.now}]
          /\ hd' = [NoHandler EXCEPT !.pc = "enq_default", !.uid = u, !.chat = chat,
                                     !.priv = priv, !.cands = cands]
          /\ ev' = Quiet

\* lines 362-368 with time.time() read off the clock: the test of line 364,
\* the rate_limit message (and the caller's no_q), the stamp of line 367
EnqueueBeginAt(u, chat, priv, cands) ==
  IF clock.now - last_sent_time[u] < RateWindow
  THEN /\ ev' = Event("rate_limited", chat, NoElem,
                      <<Note(chat, "rate_limit"), Note(chat, "no_q")>>)
       /\ UNCHANGED <<last_sent_time, hd, clock>>
  ELSE /\ last_sent_time' = [last_sent_time EXCEPT ![u] = clock.now]
       /\ clock' = [clock EXCEPT !.accepted[u] = @ \cup {clock.now}]
       /\ hd' = [NoHandler EXCEPT !.pc = "enq_default", !.uid = u, !.chat = chat,
                                  !.priv = priv, !.cands = cands]
       /\ ev' = Quiet

\* handle_text in the private chat of u (lines 455-476)
HandleTextAt(u, cands) ==
  /\ hd.pc = "none" /\ nupd < MaxSubmits
  /\ nupd' = nupd + 1
  /\ EnqueueBeginAt(u, PrivateChat(u), TRUE, cands)
  /\ UNCHANGED <<send_queues, quiz_cache, quizzes, user_stats, channel_stats,
                 known_channels, target_channel, default_channel, wk, nseq,
                 maxCalled, okCount, failed, text, parsed_mcqs, premade,
                 editing_quiz_id, retry, polls>>

NextRate ==
  \/ Tick
  \/ \E u \in RateUsers, m \in RateMessages : HandleTextAt(u, m)
  \/ EnqueueResolve
  \/ EnqueueRow

SpecRate == InitRate /\ [][NextRate]_vars

\* ------------------------------------------------------ editing a stored quiz
\* Two users in their private chats; stats.db holds a quiz of each from
\* earlier runs.  Updates are handled one at a time and no process_queue
\* task runs here, so enqueue_mcq is cut only at its candidates.
MaxEdits == 3
EditIds == Hashes \cup {"h9"}
EditMessages == {<<I1>>, <<I2>>, <<I2, I1>>}
Author(h) == IF h = "h1" THEN "u1" ELSE "u2"
StoredItem(h) == CHOOSE it \in Items : quiz_hash(it) = h

InitEdit ==
  /\ TwoUsers
  /\ quizzes = [h \in Hashes |-> [item |-> StoredItem(h), user |-> Author(h)]]
  /\ clock = NoClock
  /\ editing_quiz_id = [u \in RateUsers |-> None]

\* edit_quiz without the test of the row's user_id
EditQuiz_any(u, quiz_id) ==
  LET chat == PrivateChat(u)
  IN /\ hd.pc = "none" /\ nupd < MaxEdits
     /\ nupd' = nupd + 1
     /\ IF QuizRow(quiz_id) = NoRow
        THEN /\ ev' = Event("edit_refused", chat, NoElem, <<Note(chat, "no_quizzes")>>)
             /\ UNCHANGED editing_quiz_id
        ELSE /\ editing_quiz_id' = [editing_quiz_id EXCEPT ![u] = quiz_id]
             /\ ev' = Event("edit_armed", chat, NoElem, <<Note(chat, "edit_quiz_prompt")>>)
     /\ UNCHANGED <<send_queues, quiz_cache, last_sent_time, quizzes, user_stats, channel_stats,
                    known_channels, target_channel, default_channel, wk, hd, nseq,
                    maxCalled, okCount, failed, text, parsed_mcqs, premade,
                    clock, retry, polls>>

\* edit_quiz (lines 616-631) with the argument quiz_id
EditQuiz(u, quiz_id) ==
  LET chat == PrivateChat(u)
  IN /\ hd.pc = "none" /\ nupd < MaxEdits
     /\ nupd' = nupd + 1
     /\ IF QuizRow(quiz_id) = NoRow \/ QuizRow(quiz_id).user # u
        THEN /\ ev' = Event("edit_refused", chat, NoElem, <<Note(chat, "no_quizzes")>>)
             /\ UNCHANGED editing_quiz_id
        ELSE /\ editing_quiz_id' = [editing_quiz_id EXCEPT ![u] = quiz_id]
             /\ ev' = Event("edit_armed", chat, NoElem, <<Note(chat, "edit_quiz_prompt")>>)
     /\ UNCHANGED <<send_queues, quiz_cache, last_sent_time, quizzes, user_stats, channel_stats,
                    known_channels, target_channel, default_channel, wk, hd, nseq,
                    maxCalled, okCount, failed, text, parsed_mcqs, premade,
                    clock, retry, polls>>

\* the Cancel button: callback data "main" (lines 659-662)
CancelEdit(u) ==
  /\ hd.pc = "none" /\ nupd < MaxEdits
  /\ nupd' = nupd + 1
  /\ editing_quiz_id' = [editing_quiz_id EXCEPT ![u] = None]
  /\ ev' = Event("callback", PrivateChat(u), NoElem, <<Note(PrivateChat(u), "start")>>)
  /\ UNCHANGED <<send_queues, quiz_cache, last_sent_time, quizzes, user_stats, channel_stats,
                 known_channels, target_channel, default_channel, wk, hd, nseq,
                 maxCalled, okCount, failed, text, parsed_mcqs, premade,
                 clock, retry, polls>>

\* handle_text in the private chat of u, and enqueue_mcq up to line 381,
\* where user_data["editing_quiz_id"] is read into a local
EditSubmit(u, soon, cands) ==
  LET chat == PrivateChat(u)
      cid == Route(u, chat)
  IN /\ hd.pc = "none" /\ nupd < MaxEdits
     /\ nupd' = nupd + 1
     /\ IF last_sent_time[u] # 0 /\ soon
        THEN /\ ev' = Event("rate_limited", chat, NoElem,
                            <<Note(chat, "rate_limit"), Note(chat, "no_q")>>)
             /\ UNCHANGED <<last_sent_time, hd>>
        ELSE /\ last_sent_time' = [last_sent_time EXCEPT ![u] = 1]
             /\ IF Len(send_queues[cid]) > QueueLimit
                THEN /\ hd' = NoHandler
                     /\ ev' = Event("queue_full", cid, NoElem,
                                    <<Note(cid, "queue_full"), Note(chat, "no_q")>>)
                ELSE /\ hd' = [pc |-> "edit_row", uid |-> u, chat |-> chat, priv |-> TRUE,
                               cid |-> cid, cands |-> cands, found |-> FALSE,
                               editing |-> editing_quiz_id[u]]
                     /\ ev' = Quiet
     /\ UNCHANGED <<send_queues, quiz_cache, quizzes, user_stats, channel_stats,
                    known_channels, target_channel, default_channel, wk, nseq,
                    maxCalled, okCount, failed, text, parsed_mcqs, premade,
                    clock, editing_quiz_id, retry, polls>>

\* lines 387-406 for one candidate: passed over when cached, or stored and
\* nothing is being edited; otherwise appended, and with an id being edited
\* the UPDATE of line 400 runs and user_data["editing_quiz_id"] is popped
EditEnqueueRow ==
  LET c == Head(hd.cands)
      h == quiz_hash(c)
      cid == hd.cid
      e == hd.editing
      rest == [hd EXCEPT !.cands = Tail(hd.cands)]
  IN /\ hd.pc = "edit_row" /\ hd.cands # << >>
     /\ IF h \in quiz_cache[cid]
        THEN /\ hd' = rest
             /\ ev' = Quiet
             /\ UNCHANGED <<send_queues, nseq, quiz_cache, quizzes, editing_quiz_id>>
        ELSE IF QuizRow(h) # NoRow /\ e = None
        THEN /\ quiz_cache' = [quiz_cache EXCEPT ![cid] = @ \cup {h}]
             /\ hd' = rest
             /\ ev' = Quiet
             /\ UNCHANGED <<send_queues, nseq, quizzes, editing_quiz_id>>
        ELSE /\ send_queues' = [send_queues EXCEPT ![cid] = Append(@, Elem(c, nseq[cid] + 1))]
             /\ nseq' = [nseq EXCEPT ![cid] = @ + 1]
             /\ hd' = [rest EXCEPT !.found = TRUE]
             /\ UNCHANGED quiz_cache
             /\ IF e # None
                THEN /\ quizzes' = IF QuizRow(e) # NoRow /\ QuizRow(e).user = hd.uid
                                   THEN [quizzes EXCEPT ![e].item = c]
                                   ELSE quizzes
                     /\ editing_quiz_id' = [editing_quiz_id EXCEPT ![hd.uid] = None]
                     /\ ev' = Event("edited", cid, NoElem, <<Note(cid, "edit_quiz_success")>>)
                ELSE /\ ev' = Quiet
                     /\ UNCHANGED <<quizzes, editing_quiz_id>>
     /\ UNCHANGED <<last_sent_time, user_stats, channel_stats, known_channels, target_channel,
                    default_channel, wk, nupd, maxCalled, okCount, failed, text, parsed_mcqs,
                    premade, clock, retry, polls>>

\* lines 407-410 and the caller's "if not found"
EditEnqueueEnd ==
  /\ hd.pc = "edit_row" /\ hd.cands = << >>
  /\ hd' = NoHandler
  /\ IF hd.found
     THEN /\ wk' = CreateTask(hd.cid, hd.uid, hd.priv, NoId)
          /\ ev' = Quiet
     ELSE /\ UNCHANGED wk
          /\ ev' = Event("not_found", hd.cid, NoElem, <<Note(hd.chat, "no_q")>>)
  /\ UNCHANGED <<send_queues, quiz_cache, last_sent_time, quizzes, user_stats, channel_stats,
                 known_channels, target_channel, default_channel, nupd, nseq,
                 maxCalled, okCount, failed, text, parsed_mcqs, premade,
                 clock, editing_quiz_id, retry, polls>>

NextEdit ==
  \/ \E u \in RateUsers, quiz_id \in EditIds : EditQuiz(u, quiz_id)
  \/ \E u \in RateUsers : CancelEdit(u)
  \/ \E u \in RateUsers, soon \in BOOLEAN, m \in EditMessages : EditSubmit(u, soon, m)
  \/ EditEnqueueRow
  \/ EditEnqueueEnd

SpecEdit == InitEdit /\ [][NextEdit]_vars

\* --------------------------------------------------------------- retry_async
\* One call of wrapper (src/Bot_mcq0.5v.py, lines 93-104) for a decorator
\* built with attempts and delay.  The k-th call of func returns the value
\* k or raises the exception k; log holds what happened, in order.
MaxAttempts == 5
MaxDelay == 3

InitRetry ==
  /\ Constructed
  /\ text = << >>
  /\ parsed_mcqs = NoRes
  /\ premade = Match(<< >>, 0)
  /\ clock = NoClock
  /\ editing_quiz_id = NoEditing
  /\ polls = NoPolls
  /\ \E a \in 0..MaxAttempts, d \in 1..MaxDelay :
       retry = [NoRetry EXCEPT !.pc = "for", !.attempts = a, !.delay = d]

\* what a step of wrapper leaves alone
RetryFrame ==
  UNCHANGED <<send_queues, quiz_cache, last_sent_time, quizzes, user_stats, channel_stats,
              known_channels, target_channel, default_channel, wk, hd, nupd, nseq,
              maxCalled, okCount, failed, ev, text, parsed_mcqs, premade,
              clock, editing_quiz_id, polls>>

Calls(log) == {i \in DOMAIN log : log[i] # "sleep"}

\* the call with a sleep after the last failure as well
RetryCall_again(ok) ==
  LET k == Cardinality(Calls(retry.log)) + 1
  IN /\ retry.pc = "for" /\ retry.attempt < retry.attempts
     /\ IF ok
        THEN retry' = [retry EXCEPT !.pc = "returned", !.log = Append(@, "ok"), !.result = k]
        ELSE IF retry.attempt < retry.attempts
        THEN retry' = [retry EXCEPT !.pc = "sleep", !.log = Append(@, "fail"), !.error = k]
        ELSE retry' = [retry EXCEPT !.pc = "raised", !.log = Append(@, "fail"), !.error = k]
     /\ RetryFrame

\* lines 96-104: func is awaited; its value is returned, or its exception
\* is caught and, on the last attempt, raised again
RetryCall(ok) ==
  LET k == Cardinality(Calls(retry.log)) + 1
  IN /\ retry.pc = "for" /\ retry.attempt < retry.attempts
     /\ IF ok
        THEN retry' = [retry EXCEPT !.pc = "returned", !.log = Append(@, "ok"), !.result = k]
        ELSE IF retry.attempt < retry.attempts - 1
        THEN retry' = [retry EXCEPT !.pc = "sleep", !.log = Append(@, "fail"), !.error = k]
        ELSE retry' = [retry EXCEPT !.pc = "raised", !.log = Append(@, "fail"), !.error = k]
     /\ RetryFrame

\* line 102: asyncio.sleep(delay) is over, the loop goes to its next attempt
RetrySleep ==
  /\ retry.pc = "sleep"
  /\ retry' = [retry EXCEPT !.pc = "for", !.attempt = @ + 1, !.log = Append(@, "sleep"),
                             !.slept = @ + retry.delay]
  /\ RetryFrame

\* line 95: range(attempts) is used up, wrapper returns None
RetryEnd ==
  /\ retry.pc = "for" /\ retry.attempt >= retry.attempts
  /\ retry' = [retry EXCEPT !.pc = "returned", !.result = 0]
  /\ RetryFrame

NextRetry ==
  \/ \E ok \in BOOLEAN : RetryCall(ok)
  \/ RetrySleep
  \/ RetryEnd

SpecRetry == InitRetry /\ [][NextRetry]_vars

\* ---------------------------------------------------------------- send_polls
\* One run of send_polls (src/Bot_mcq0.4v.py, lines 269-299) from the test
\* of line 281 on, for a list mcqs of n questions; i is the place of the
\* question the loop is at, log what was done, in order.
MaxPolls == 4
Did(what, k) == [what |-> what, k |-> k]

InitPolls ==
  /\ Constructed
  /\ text = << >>
  /\ parsed_mcqs = NoRes
  /\ premade = Match(<< >>, 0)
  /\ clock = NoClock
  /\ editing_quiz_id = NoEditing
  /\ retry = NoRetry
  /\ \E n \in 0..MaxPolls : polls = [NoPolls EXCEPT !.pc = "start", !.n = n]

\* what a step of send_polls leaves alone
PollsFrame ==
  UNCHANGED <<send_queues, quiz_cache, last_sent_time, quizzes, user_stats, channel_stats,
              known_channels, target_channel, default_channel, wk, hd, nupd, nseq,
              maxCalled, okCount, failed, ev, text, parsed_mcqs, premade,
              clock, editing_quiz_id, retry>>

\* the loop goes to the question after i, or is over
NextQuestion(p) == [p EXCEPT !.i = @ + 1, !.pc = IF p.i < p.n THEN "send" ELSE "done"]

\* lines 281-285: an empty list is answered with poll_error; otherwise the
\* loop starts
PollsStart(ok) ==
  /\ polls.pc = "start"
  /\ IF polls.n = 0
     THEN polls' = [polls EXCEPT !.pc = IF ok THEN "done" ELSE "raised",
                                 !.log = IF ok THEN Append(@, Did("reported", 0)) ELSE @]
     ELSE ok /\ polls' = [polls EXCEPT !.pc = "send", !.i = 1]
  /\ PollsFrame

\* lines 287-295: send_poll returns, or raises a TelegramError
PollSend(ok) ==
  /\ polls.pc = "send"
  /\ polls' = IF ok THEN [polls EXCEPT !.pc = "save", !.log = Append(@, Did("sent", polls.i))]
              ELSE [polls EXCEPT !.pc = "report", !.log = Append(@, Did("error", polls.i))]
  /\ PollsFrame

\* lines 296-297: save_question returns, or aiosqlite raises, which the
\* except clause of line 298 does not catch
PollSave(ok) ==
  /\ polls.pc = "save"
  /\ polls' = IF ok THEN NextQuestion([polls EXCEPT !.log = Append(@, Did("saved", polls.i))])
              ELSE [polls EXCEPT !.pc = "raised"]
  /\ PollsFrame

\* lines 298-299: reply_text with poll_error returns, or raises out of the
\* except clause and out of send_polls
PollReport(ok) ==
  /\ polls.pc = "report"
  /\ polls' = IF ok THEN NextQuestion([polls EXCEPT !.log = Append(@, Did("reported", polls.i))])
              ELSE [polls EXCEPT !.pc = "raised"]
  /\ PollsFrame

NextPolls ==
  \/ \E ok \in BOOLEAN : PollsStart(ok)
  \/ \E ok \in BOOLEAN : PollSend(ok)
  \/ \E ok \in BOOLEAN : PollSave(ok)
  \/ \E ok \in BOOLEAN : PollReport(ok)

SpecPolls == InitPolls /\ [][NextPolls]_vars

\* -------------------------------------------------------------- properties
\* process_queue tasks of chat c that have started and not returned
RunningWorkers(c) == {t \in BagToSet(wk) : t.chat = c /\ t.pc # "ready"}

\* how many of them there are
NumRunning(c) == BagCardinality([t \in RunningWorkers(c) |-> CopiesIn(t, wk)])

\* this step leaves one more task in the state t, a task awaiting send_poll:
\* the step issues the send_poll call for t.cur
CallStep(t) == t.pc = "send" /\ CopiesIn(t, wk') > CopiesIn(t, wk)

\* this step resumes the task t from its send_poll call and does not take
\* it on to the sleep that follows a poll returned: send_poll raised
SendRaised(t) ==
  /\ t.pc = "send"
  /\ CopiesIn(t, wk') < CopiesIn(t, wk)
  /\ CopiesIn([t EXCEPT !.pc = "sleep"], wk') = CopiesIn([t EXCEPT !.pc = "sleep"], wk)

\* seqs of the tuples of chat c that are queued or held by a running task
PendingSeqs(c) ==
  {send_queues[c][i].seq : i \in 1..Len(send_queues[c])}
    \cup {t.cur.seq : t \in RunningWorkers(c)}

\* C1: for every destination at most one process_queue task is running
C1_AtMostOneWorker == \A c \in Chats : NumRunning(c) <= 1

\* C2: send_poll calls to a destination are made in the order in which the
\* tuples were appended to its queue (a tuple called again after a failure
\* still comes before every tuple appended after it)
C2_AttemptsInAppendOrder ==
  [][\A t \in BagToSet(wk') : CallStep(t) => t.cur.seq >= maxCalled[t.chat]]_vars

\* C3: a tuple whose send_poll raised is at the head of the queue when the
\* task stops, and it stays queued or in the hands of a task until a
\* send_poll call is made for it again
C3_FailedItemRetried ==
  /\ ev.kind = "transient" =>
       send_queues[ev.chat] # << >> /\ Head(send_queues[ev.chat]) = ev.el
  /\ \A c \in Chats : failed[c] \subseteq PendingSeqs(c)

\* C4: a content hash enqueued twice to a destination is delivered to it
\* by at most one successful send_poll call
C4_OneDeliveryPerHash == \A c \in Chats, h \in Hashes : okCount[c][h] <= 1

\* C5: no send_poll call is made to a destination for a hash that a
\* send_poll call has already delivered there
C5_NoCallAfterDelivery ==
  [][\A t \in BagToSet(wk') :
       CallStep(t) => okCount[t.chat][quiz_hash(t.cur.item)] = 0]_vars

\* C6: enqueue_mcq, finding QueueLimit tuples in the destination queue,
\* answers queue_full and goes no further
C6_FullQueueRejects ==
  [][(hd.pc = "enq_default" /\ hd'.pc # "enq_default"
        /\ Len(send_queues[Route(hd.uid, hd.chat)]) >= QueueLimit)
     => (hd'.pc = "none" /\ ev'.kind = "queue_full" /\ send_queues' = send_queues)]_vars

\* C7: no destination queue ever holds more than QueueLimit tuples
C7_QueueBounded == \A c \in Chats : Len(send_queues[c]) <= QueueLimit

\* C8: when send_poll raises, the task puts the tuple back at the head of
\* the queue, in front of the tuples that were behind it, and returns
C8_RequeueAtHeadAndStop ==
  [][\A t \in BagToSet(wk) :
       SendRaised(t)
       => /\ wk' = Returned(t)
          /\ send_queues'[t.chat] = <<t.cur>> \o send_queues[t.chat]]_vars

C8_Witness ==
  /\ ev.kind = "transient"
  /\ Len(send_queues[ev.chat]) >= 2
  /\ Head(send_queues[ev.chat]) = ev.el

\* C9: a send_poll call that raises is followed by exactly one message to
\* the chat
C9_OneNoticePerTransient == ev.kind = "transient" => Len(ev.notes) = 1

\* C10: when the rights check refuses or raises, the tuple is dropped, one
\* not_admin message is sent, and the loop goes on
C10_PermanentDropsAndNotifies ==
  ev.kind \in {"perm_dropped", "perm_raised"} =>
    /\ ev.notes = <<Note(ev.chat, "not_admin")>>
    /\ \A i \in 1..Len(send_queues[ev.chat]) : send_queues[ev.chat][i] # ev.el

\* C11: a hash is in the cache of a destination only after a send_poll call
\* has delivered that content to the destination
C11_CachedOnlyAfterDelivery ==
  \A c \in Chats, h \in Hashes : h \in quiz_cache[c] => okCount[c][h] > 0

\* the tuples of chat c that are queued or held by a running task
PendingElems(c) ==
  {send_queues[c][i] : i \in 1..Len(send_queues[c])}
    \cup {t.cur : t \in RunningWorkers(c)}

\* C12: a tuple leaves the queue and the hands of the tasks only when its
\* content has been delivered to the chat or the step that drops it sends
\* the chat a message about it
C12_NoSilentLoss ==
  [][\A c \in Chats : \A e \in PendingElems(c) :
       e \notin PendingElems(c)'
       => \/ okCount'[c][quiz_hash(e.item)] > 0
          \/ ev'.chat = c /\ ev'.el = e /\ ev'.notes # << >>]_vars

\* C13: enqueue_mcq, at a candidate whose content was delivered to another
\* chat and never to the destination, appends it to the destination's queue
C13_DedupPerDestination ==
  [][(/\ hd.pc = "enq_row"
      /\ hd' # hd
      /\ okCount[hd.cid][quiz_hash(Head(hd.cands))] = 0
      /\ \E x \in Chats \ {hd.cid} : okCount[x][quiz_hash(Head(hd.cands))] > 0)
     => Len(send_queues'[hd.cid]) = Len(send_queues[hd.cid]) + 1]_vars

\* the task created by /start quiz_<id>, holding the tuple of that record
\* and awaiting the SELECT or the rights check (a task created by a
\* submission has no quiz_id before lang is bound)
DeepLinkTask(t) ==
  /\ t.quiz_id # NoId
  /\ ~t.lang
  /\ t.pc \in {"db", "perm"}
  /\ quiz_hash(t.cur.item) = t.quiz_id

\* C14: the task of a deep link, in a chat that has not received the
\* record's content, goes from the SELECT to the rights check and from
\* there to the send_poll call
C14_DeepLinkDelivered ==
  [][\A t \in BagToSet(wk) :
       (/\ DeepLinkTask(t)
        /\ okCount[t.chat][t.quiz_id] = 0
        /\ CopiesIn(t, wk') < CopiesIn(t, wk))
       => LET nxt == [t EXCEPT !.pc = IF t.pc = "db" THEN "perm" ELSE "send"]
          IN CopiesIn(nxt, wk') > CopiesIn(nxt, wk)]_vars

\* the tuples in the queues
QueuedItems ==
  UNION {{send_queues[c][i].item : i \in 1..Len(send_queues[c])} : c \in Chats}

\* the label of question s is a key of the maps and stands for one of its options
Resolves(s) ==
  /\ Recognized(<<Head(s.ans)>>)
  /\ InRange(AnswerIndex(<<Head(s.ans)>>), s.opts)

\* C15: every tuple in a queue has 2 to 10 options, no two of them the same
\* text, and an index of one of them; a block none of whose questions has an
\* answer label that resolves to one of its options puts nothing in a queue
C15_QueuedItemsValid ==
  /\ \A it \in QueuedItems :
       /\ 2 <= Len(it.opts) /\ Len(it.opts) <= 10
       /\ \A i, j \in DOMAIN it.opts : i # j => it.opts[i] # it.opts[j]
       /\ 0 <= it.idx /\ it.idx < Len(it.opts)
  /\ (\A i \in DOMAIN text : ~Resolves(text[i])) => QueuedItems = {}

\* a question of ten options whose answer is the last is queued
C15_Witness ==
  \E it \in QueuedItems : Len(it.opts) = 10 /\ it.idx = 9

\* C16: every tuple in a queue has a question of at most 300 characters and
\* options of at most 100 characters each
C16_QueuedLengths ==
  \A it \in QueuedItems :
    /\ Len(it.q) <= 300
    /\ \A i \in DOMAIN it.opts : Len(it.opts[i]) <= 100

\* C17: no tuple returned has an option text twice, and every tuple that a
\* question of the block yields when parsed alone is among the tuples the
\* block yields
C17_DuplicateRejectsOnlyItself ==
  parsed_mcqs.done =>
    /\ \A it \in Range(parsed_mcqs.out) :
         \A i, j \in DOMAIN it.opts : i # j => lower(it.opts[i]) # lower(it.opts[j])
    /\ \A i \in DOMAIN text :
         Range(parse_mcq(<<text[i]>>)) \subseteq Range(parsed_mcqs.out)

\* a block of one question with 2 to 10 options, no two the same whatever
\* the case
ValidSingle ==
  /\ Len(text) = 1
  /\ 2 <= Len(text[1].opts) /\ Len(text[1].opts) <= 10
  /\ \A i, j \in DOMAIN text[1].opts :
       i # j => lower(text[1].opts[i]) # lower(text[1].opts[j])

\* the option lines of the block's question
Lines == 1..Len(text[1].opts)

\* C18: with the number n of an option line as answer label, in ASCII or in
\* Arabic-Indic digits, the block parses and every tuple returned has index
\* n - 1
C18_NumberToIndex ==
  (parsed_mcqs.done /\ ValidSingle) =>
    \A n \in Lines :
      text[1].ans \in {Decimal(ascii_digits, n), Decimal(arabic_digits, n)}
      => /\ parsed_mcqs.out # << >>
         /\ \A it \in Range(parsed_mcqs.out) : it.idx = n - 1

\* C19: with the letter of the k-th option line as answer label, a Latin
\* letter in either case or an Arabic letter, the block parses and every
\* tuple returned has index k - 1
C19_LetterToIndex ==
  (parsed_mcqs.done /\ ValidSingle) =>
    \A k \in Lines :
      text[1].ans \in {Marker("upper", k), Marker("lower", k), Marker("arabic", k)}
      => /\ parsed_mcqs.out # << >>
         /\ \A it \in Range(parsed_mcqs.out) : it.idx = k - 1

\* C20: a block of one valid question whose answer label is the marker of
\* its k-th option line parses to exactly one tuple, and the option at the
\* tuple's index is the k-th option
C20_OneQuestionRightAnswer ==
  (parsed_mcqs.done /\ ValidSingle) =>
    \A k \in Lines :
      text[1].ans = Marker(text[1].style, k)
      => /\ Len(parsed_mcqs.out) = 1
         /\ parsed_mcqs.out[1].opts[parsed_mcqs.out[1].idx + 1]
              = escape_markdown(strip(text[1].opts[k]))

\* the block "Q: 2+2?\nA) 3\nB) 4\nAnswer: B"
ScenarioA == <<Seg(<<"Q">>, Question, "upper", ")", << <<"3">>, <<"4">> >>, <<"B">>)>>

\* C21: parse_mcq returns for that block one tuple, with the question text
\* 2+2?, the options 3 and 4 as written and the index 1
C21_ScenarioA ==
  (parsed_mcqs.done /\ text = ScenarioA) =>
    parsed_mcqs.out = <<[q |-> Question, opts |-> << <<"3">>, <<"4">> >>, idx |-> 1]>>

\* the block is one question with eleven option lines
ElevenOptions == Len(text) = 1 /\ Len(text[1].opts) = 11

\* the step ends the handling of a message
SubmissionEnds == hd' = NoHandler /\ (hd # NoHandler \/ nupd' # nupd)

NoQSent == \E i \in DOMAIN ev.notes : ev.notes[i].key = "no_q"

\* C23: the no_q message is sent only for a message that parses to no tuple
C23_NoQOnlyWhenNothingParsed == NoQSent => parse_mcq(text) = << >>

\* the places of text x in the list s
Places(s, x) == {i \in DOMAIN s : s[i] = x}

\* C24: once shuffled, the list holds every text as often as opts does, and
\* new_index is a place of the list, where the text is the one opts has at
\* ans_idx
C24_ShuffleKeepsAnswer ==
  premade.done =>
    /\ Len(premade.shuffled) = Len(premade.opts)
    /\ \A x \in Range(premade.opts) \cup Range(premade.shuffled) :
         Cardinality(Places(premade.shuffled, x)) = Cardinality(Places(premade.opts, x))
    /\ 0 <= premade.new_index /\ premade.new_index < Len(premade.shuffled)
    /\ premade.shuffled[premade.new_index + 1] = premade.opts[premade.ans_idx + 1]

\* a shuffle that moved the answer to another place
C24_Witness ==
  /\ premade.done
  /\ premade.shuffled # premade.opts
  /\ premade.new_index # premade.ans_idx

\* the sum of f over the set S of its arguments
RECURSIVE SumOver(_, _)
SumOver(f, S) ==
  IF S = {} THEN 0
  ELSE LET x == CHOOSE y \in S : TRUE IN f[x] + SumOver(f, S \ {x})

\* the sent counters of tables user_stats and channel_stats, added up, and
\* the send_poll calls that returned a poll
CountersTotal == SumOver(user_stats, Users) + SumOver(channel_stats, Chats)
DeliveredTotal == SumOver([c \in Chats |-> SumOver(okCount[c], Hashes)], Chats)

\* C25: with no process_queue task left, the sent counters add up to the
\* number of send_poll calls that returned
C25_CountersMatchDeliveries ==
  wk = EmptyBag => CountersTotal = DeliveredTotal

\* C26: every item that a task started by a submission has delivered (its
\* send_poll returned and lines 307-313 are behind it) has a row in quizzes
\* under its own hash, holding that item and the submitting user; this is
\* so for every item of the run, not only the first.  Tasks created by
\* enqueue_mcq from a private chat are the ones with is_private set.
Delivered(t) == t.priv /\ t.pc = "confirm"
C26_EveryDeliveredItemRecorded ==
  \A t \in BagToSet(wk) :
    Delivered(t) => QuizRow(quiz_hash(t.cur.item)) = [item |-> t.cur.item, user |-> t.uid]

\* C27: a task that comes to the test of line 268 with nothing left to send
\* returns, and every task that was started returns in the end: the updates
\* are finitely many and every await returns or raises.
AtLoopTest(t) == t.pc = "ready" \/ (t.pc = "confirm" /\ ev'.kind = "confirmed")
Steps(t) == CopiesIn(t, wk') < CopiesIn(t, wk)
C27_WorkersTerminate ==
  /\ [][\A t \in BagToSet(wk) :
          (Steps(t) /\ AtLoopTest(t)
             /\ SkipCached(send_queues[t.chat], quiz_cache[t.chat]) = << >>)
          => BagCardinality(wk') < BagCardinality(wk)]_vars
  /\ (wk # EmptyBag) ~> (wk = EmptyBag)
C27_Witness ==
  wk = EmptyBag /\ ev.kind = "confirmed" /\ send_queues[ev.chat] = << >> /\ nupd = MaxUpdates

\* C28: no send_poll call to a chat is issued while the sleep of line 300
\* that follows an earlier send_poll to that chat is still pending.
SleepPending(c) == \E t \in BagToSet(wk) : t.chat = c /\ t.pc = "sleep"
CallIssued(c) == ev'.kind = "call" /\ ev'.chat = c /\ wk' # wk
C28_NoCallDuringWait ==
  [][\A c \in Chats : CallIssued(c) => ~SleepPending(c)]_vars

\* C29: a send_poll call to a channel is issued only by a task that has just
\* had the bot's membership of that channel from get_chat_member, with the
\* right to post; this is so too for a question sent in the private chat
\* and routed to the channel chosen there or set as the default.
RightsGranted(c) == \E t \in BagToSet(wk) : t.chat = c /\ t.pc = "perm" /\ Steps(t)
C29_NoChannelCallWithoutRights ==
  [][\A c \in Chats : (ChatType(c) = "channel" /\ CallIssued(c)) => RightsGranted(c)]_vars

\* C30: a step of a handler (enqueue_mcq, the deep link of start, a
\* callback) leaves every queue as it is or longer by one tuple at its
\* tail; a step of a process_queue task leaves a queue as it is, shorter at
\* its head (popleft), or with the task's own tuple put back at its head
\* (appendleft), and touches no queue but the task's.
TaskStep == \E t \in BagToSet(wk) : Steps(t)
Popped(q, q2) == \E k \in 0..Len(q) : q2 = SubSeq(q, k + 1, Len(q))
PushedBack(c, q, q2) == \E t \in BagToSet(wk) : Steps(t) /\ t.chat = c /\ q2 = <<t.cur>> \o q
AppendedOne(q, q2) == Len(q2) = Len(q) + 1 /\ SubSeq(q2, 1, Len(q)) = q
C30_ProducersOnlyAppend ==
  [][\A c \in Chats :
       LET q == send_queues[c]
           q2 == send_queues'[c]
       IN IF TaskStep
          THEN /\ Popped(q, q2) \/ PushedBack(c, q, q2)
               /\ q2 # q => \E t \in BagToSet(wk) : Steps(t) /\ t.chat = c
          ELSE q2 = q \/ AppendedOne(q, q2)]_vars
C30_Witness ==
  /\ ev.kind \in {"transient", "post_fail"}
  /\ Len(send_queues[ev.chat]) >= 2
  /\ Head(send_queues[ev.chat]) = ev.el
  /\ send_queues[ev.chat][2].seq > ev.el.seq

\* C31: a tuple whose send_poll raised stays with the queue or a task until
\* it is delivered or its failures reach max_retries, and then the step
\* that drops it sends post_failed to the chat.
Exhausted(c, e) ==
  /\ ev'.kind = "retries_exhausted" /\ ev'.chat = c /\ ev'.el = e
  /\ ev'.notes = <<Note(c, "post_failed")>>
C31_FailedDroppedAtMaxRetries ==
  [][\A c \in Chats : \A e \in PendingElems(c) :
       (e.seq \in failed[c] /\ e \notin PendingElems(c)') => Exhausted(c, e)]_vars

\* C32: pressing a repost_to_<quiz_id>_<chat_id> or share_to_<quiz_id>_<chat_id>
\* button for a stored quiz whose hash is not in the cache of that chat
\* appends the question of the row to the queue of the chat and starts a
\* process_queue task for it.
DestinationCmds == {cmd \in CallbackCmds : Len(cmd) = 4 /\ cmd[2] = "to"}
Reposted(quiz_id, cid) ==
  /\ Len(send_queues'[cid]) = Len(send_queues[cid]) + 1
  /\ send_queues'[cid][Len(send_queues'[cid])].item = QuizRow(quiz_id).item
  /\ \E t \in BagToSet(wk') :
       t.chat = cid /\ t.pc = "ready" /\ CopiesIn(t, wk') > CopiesIn(t, wk)
C32_DestinationChosenEnqueues ==
  [][\A u \in Users, cmd \in DestinationCmds :
       (/\ QuizRow(cmd[3]) # NoRow
        /\ quiz_hash(QuizRow(cmd[3]).item) \notin quiz_cache[cmd[4]]
        /\ Callback(u, "pm", cmd))
       => Reposted(cmd[3], cmd[4])]_vars

\* C33: a message of user u that comes less than RateWindow seconds after
\* the last message of u that passed the rate limit gets the rate_limit
\* message, puts nothing in a queue, creates no task and leaves the stamp
\* of u as it is; a message that comes later passes; the messages of
\* another user play no part.
TooSoon(u) == \E t \in clock.accepted[u] : clock.now - t < RateWindow
Rejected(u) ==
  /\ \E i \in DOMAIN ev'.notes : ev'.notes[i] = Note(PrivateChat(u), "rate_limit")
  /\ hd' = NoHandler
  /\ UNCHANGED <<send_queues, wk, last_sent_time, clock>>
Passed(u) ==
  /\ \A i \in DOMAIN ev'.notes : ev'.notes[i].key # "rate_limit"
  /\ hd'.pc = "enq_default" /\ hd'.uid = u
  /\ clock'.accepted[u] = clock.accepted[u] \cup {clock.now}
C33_RateLimitPerUser ==
  [][\A u \in RateUsers, m \in RateMessages :
       HandleTextAt(u, m) =>
         /\ IF TooSoon(u) THEN Rejected(u) ELSE Passed(u)
         /\ \A v \in RateUsers \ {u} :
              last_sent_time'[v] = last_sent_time[v] /\ clock'.accepted[v] = clock.accepted[v]]_vars
C33_Witness ==
  /\ ev.kind = "rate_limited" /\ ev.chat = "pm"
  /\ clock.now = RateWindow + 1
  /\ clock.accepted = [u \in RateUsers |-> IF u = "u1" THEN {RateWindow} ELSE {RateWindow + 1}]

\* C34: the content of a stored quiz changes only in a step of a message of
\* the user who stored it, and only for the quiz that user was editing when
\* the message came; editing_quiz_id of a user is set only to a quiz that
\* user stored; the step that updates the quiz leaves it cleared, and so
\* does the Cancel button.
Modified(h) == quizzes[h] # NoRow /\ quizzes'[h] # quizzes[h]
C34_OnlyAuthorEdits ==
  /\ [](\A u \in RateUsers :
          editing_quiz_id[u] # None => QuizRow(editing_quiz_id[u]).user = u)
  /\ [][\A h \in Hashes :
          Modified(h) => /\ hd.pc = "edit_row" /\ hd.uid = quizzes[h].user
                         /\ hd.editing = h
                         /\ quizzes'[h].user = quizzes[h].user
                         /\ editing_quiz_id'[hd.uid] = None
                         /\ \A g \in Hashes \ {h} : quizzes'[g] = quizzes[g]]_vars
  /\ [][\A u \in RateUsers : CancelEdit(u) => editing_quiz_id'[u] = None]_vars
C34_Witness ==
  /\ quizzes["h1"] = [item |-> I2, user |-> "u1"]
  /\ editing_quiz_id["u1"] = None
  /\ ev.kind = "edited"

\* C35: func is called at most attempts times; wrapper returns the value of
\* the first call that returns and calls no more; between a call that
\* raised and the next call there is one sleep of delay; when attempts
\* calls have raised, the exception of the last is raised, with no sleep
\* after it.
Alternates(log) ==
  \A i \in DOMAIN log :
    /\ i % 2 = 1 => log[i] \in {"ok", "fail"}
    /\ i % 2 = 0 => log[i] = "sleep"
    /\ log[i] = "ok" => i = Len(log)
C35_RetryBounded ==
  LET n == Cardinality(Calls(retry.log))
  IN /\ n <= retry.attempts
     /\ Alternates(retry.log)
     /\ retry.pc \in {"returned", "raised"} /\ n > 0 => retry.slept = (n - 1) * retry.delay
     /\ retry.pc = "returned" =>
          \/ retry.attempts = 0 /\ n = 0
          \/ retry.log[Len(retry.log)] = "ok" /\ retry.result = n
     /\ retry.pc = "raised" =>
          /\ n = retry.attempts /\ retry.error = n
          /\ \A i \in Calls(retry.log) : retry.log[i] = "fail"
          /\ retry.log[Len(retry.log)] = "fail"
C35_Witness ==
  /\ retry.pc = "raised" /\ retry.attempts = 3
  /\ retry.log = <<"fail", "sleep", "fail", "sleep", "fail">>

\* C36: send_polls goes through the questions in the order of the list; a
\* question is saved only right after its own poll was sent; and when
\* send_poll raises for a question, the user is told and every question
\* after it is tried before send_polls is over.
Tried(log, k) == \E i \in DOMAIN log : log[i].k = k /\ log[i].what \in {"sent", "error"}
InListOrder(log) == \A i, j \in DOMAIN log : i < j => log[i].k <= log[j].k
SavedAfterSent(log) ==
  \A i \in DOMAIN log :
    log[i].what = "saved" => i > 1 /\ log[i - 1] = Did("sent", log[i].k)
ErrorsSkipped(p) ==
  \A i \in DOMAIN p.log :
    (p.log[i].what = "error" /\ p.pc \in {"done", "raised"}) =>
      /\ \E j \in DOMAIN p.log : j > i /\ p.log[j] = Did("reported", p.log[i].k)
      /\ \A k \in (p.log[i].k + 1)..p.n : Tried(p.log, k)
C36_PollsInOrderErrorsSkipped ==
  /\ InListOrder(polls.log)
  /\ SavedAfterSent(polls.log)
  /\ ErrorsSkipped(polls)

====
